---- MODULE Spec2Model ----
(***************************************************************************)
(* Snake: the movement and collision engine and the tick loops of the two  *)
(* editions of the repository.                                             *)
(*                                                                         *)
(*   GUI edition       src/game.py  (SnakeGame) with its Snake class, whose *)
(*                     module (queue/commit of directions, move, reset) is *)
(*                     imported by game.py                                 *)
(*   terminal edition  src/snake.py (Snake, SnakeGame, curses)             *)
(*                                                                         *)
(* One behaviour is one process run of one edition; `edition` says which.  *)
(* Positions are pairs <<x, y>>, a body is a sequence with the head at     *)
(* index 1 (the source's index 0).  Boards are scaled down; time is        *)
(* counted in whole units, MOVE_INTERVAL of them making one tick.          *)
(* Drawing, themes and the animation clocks carry no game state and are    *)
(* left out.                                                               *)
(***************************************************************************)
EXTENDS Integers, Sequences, FiniteSets, TLC

VARIABLES
    edition,        \* "gui" | "term": which program is running
    board,          \* [width, height, length]: GRID_WIDTH, GRID_HEIGHT (GUI) or
                    \* board_width, board_height (terminal), and INITIAL_SNAKE_LENGTH
    body,           \* snake.body, head first
    direction,      \* snake.direction
    pending,        \* GUI Snake: the queued direction (terminal: unused)
    food,           \* food_position (GUI) / food (terminal); None when absent
    score,          \* score
    high_score,     \* high_score
    state,          \* GUI: GameState; terminal: "PLAYING" / "GAME_OVER" from game_over
    paused,         \* terminal: paused (GUI: FALSE, pausing is a GameState)
    victory,        \* GUI: victory; terminal: the dialog title is " YOU WIN! "
    previous_body,  \* GUI: previous_body (terminal: unused)
    move_progress,  \* GUI: move_progress, in time units (terminal: 0)
    running,        \* GUI: running; terminal: the main loop has not been left
    pc,             \* position in the main loop ("reset": a restart is due)
    tick,           \* what the most recent tick of this round computed (history)
    delta,          \* terminal: delta of run, in time units, 0 before the first
                    \* loop iteration (GUI: 0)
    file            \* HIGH_SCORE_FILE on disk: [kind, text]

vars == <<edition, board, body, direction, pending, food, score, high_score, state,
          paused, victory, previous_body, move_progress, running, pc, tick, delta,
          file>>

----------------------------------------------------------------------------
(* Configuration, scaled down.                                             *)

GRID_WIDTH == 3
GRID_HEIGHT == 2
BOARD_WIDTH == 3
BOARD_HEIGHT == 2
INITIAL_SNAKE_LENGTH == 1
MOVE_INTERVAL == 2
TICK_RATE == 2

\* Largest frame time, in time units, the clock hands to one frame.
MaxDt == 3
\* Largest time, in time units, between two loop iterations of the terminal.
MaxDelta == 4
\* Largest high score found in the high score file at start-up.
MaxStoredHighScore == 1
\* Longest text found in a high score file that the game did not write.
MaxTextLen == 3
\* Largest high score handed to save_high_score on its own.
MaxSaved == 11

None == <<>>

RIGHT == <<1, 0>>
LEFT == <<-1, 0>>
UP == <<0, -1>>
DOWN == <<0, 1>>

\* DirectionVector: the four cardinal unit vectors.
DirectionVectors == {UP, DOWN, LEFT, RIGHT}

\* Mutant of Add: the direction is added twice.
Add_Twice(p, d) == <<p[1] + 2 * d[1], p[2] + 2 * d[2]>>

Add(p, d) == <<p[1] + d[1], p[2] + d[2]>>

Cells(s) == {s[i] : i \in 1..Len(s)}

\* Mutant of AllButLast: the slice drops the first element (body[1:]).
AllButLast_DropsFirst(s) == SubSeq(s, 2, Len(s))

\* body[:-1]
AllButLast(s) == SubSeq(s, 1, Len(s) - 1)

----------------------------------------------------------------------------
(* The Snake class of the GUI edition.                                     *)

\* Snake.set_direction (queueDirection): the pending direction after a request.
QueueDirection(dir, pend, v) ==
    IF v[1] = -dir[1] /\ v[2] = -dir[2] THEN pend ELSE v

\* Mutant of Move: the new head is appended at the tail end, where the
\* non-growing move pops it again.
Move_Append(b, dir, grow) == IF grow THEN Append(b, Add(b[1], dir)) ELSE b

\* Mutant of Move: the tail is removed on a growing move too.
Move_AlwaysPop(b, dir, grow) == <<Add(b[1], dir)>> \o AllButLast(b)

\* Snake.move(grow): the body after a move in direction dir.
Move(b, dir, grow) ==
    IF grow THEN <<Add(b[1], dir)>> \o b
    ELSE <<Add(b[1], dir)>> \o AllButLast(b)

\* Snake.reset / Snake.create_centered: the centred horizontal body.
CenteredBody(width, height, length) ==
    [i \in 1..length |-> <<(width \div 2) - (i - 1), height \div 2>>]

----------------------------------------------------------------------------
(* GUI edition: collision and placement.                                   *)

\* Mutant of _within_bounds: the upper bounds are inclusive.
_within_bounds_Inclusive(position) ==
    /\ 0 <= position[1] /\ position[1] <= board.width
    /\ 0 <= position[2] /\ position[2] <= board.height

_within_bounds(position) ==
    /\ 0 <= position[1] /\ position[1] < board.width
    /\ 0 <= position[2] /\ position[2] < board.height

GuiCells == {<<x, y>> : x \in 0..(board.width - 1), y \in 0..(board.height - 1)}

\* Mutant of GuiAvailable: the tail cell counts as free.
GuiAvailable_TailFree(b) == {c \in GuiCells : c \notin Cells(AllButLast(b))}

\* _spawn_food: the cells random.choice picks from.
GuiAvailable(b) == {c \in GuiCells : c \notin Cells(b)}

\* _spawn_food: the values food_position can take.
_spawn_food(b) == IF GuiAvailable(b) = {} THEN {None} ELSE GuiAvailable(b)

\* Mutant of GuiBodyToCheck: the slice drops the last two segments.
GuiBodyToCheck_Short(b) == SubSeq(b, 1, Len(b) - 2)

\* body_to_check of _advance_snake.
GuiBodyToCheck(b) == AllButLast(b)

----------------------------------------------------------------------------
(* Terminal edition: Direction, Snake, collision and placement.            *)

is_opposite(self, other) == self[1] = -other[1] /\ self[2] = -other[2]

\* Snake.set_direction: the direction after a request.
set_direction(dir, new_direction) ==
    IF ~is_opposite(dir, new_direction) THEN new_direction ELSE dir

\* Mutant of _create_initial_snake: one segment more than the initial length.
_create_initial_snake_OneMore ==
    LET center_x == board.width \div 2
        center_y == board.height \div 2
    IN  [i \in 1..(board.length + 1) |-> <<center_x - (i - 1), center_y>>]

\* Mutant of _create_initial_snake: the body extends in the positive-x direction.
_create_initial_snake_Forward ==
    LET center_x == board.width \div 2
        center_y == board.height \div 2
    IN  [i \in 1..board.length |-> <<center_x + (i - 1), center_y>>]

\* _create_initial_snake: the centred horizontal body.
_create_initial_snake ==
    LET center_x == board.width \div 2
        center_y == board.height \div 2
    IN  [i \in 1..board.length |-> <<center_x - (i - 1), center_y>>]

\* Mutant of _hit_wall: the far walls are one cell further out.
_hit_wall_Far(x, y) ==
    \/ x <= 0
    \/ x > board.width + 1
    \/ y <= 0
    \/ y > board.height + 1

\* Mutant of _hit_wall: the top wall is not a wall.
_hit_wall_NoTop(x, y) ==
    \/ x <= 0
    \/ x >= board.width + 1
    \/ y < 0
    \/ y >= board.height + 1

_hit_wall(x, y) ==
    \/ x <= 0
    \/ x >= board.width + 1
    \/ y <= 0
    \/ y >= board.height + 1

TermCells == {<<x, y>> : x \in 1..board.width, y \in 1..board.height}

\* Mutant of _available_cells: the head is not counted as occupied.
_available_cells_SkipHead(b) == {cell \in TermCells : cell \notin Cells(Tail(b))}

_available_cells(b) == {cell \in TermCells : cell \notin Cells(b)}

\* _place_food: the values food can take.
_place_food(b) == IF _available_cells(b) = {} THEN {None} ELSE _available_cells(b)

\* Mutant of TermBodyToCheck: the tail is never excluded.
TermBodyToCheck_Whole(b, will_grow) == b

\* Mutant of TermBodyToCheck: the tail is excluded on the growing move instead.
TermBodyToCheck_Swapped(b, will_grow) == IF will_grow THEN AllButLast(b) ELSE b

\* body_to_check of _update.
TermBodyToCheck(b, will_grow) == IF will_grow THEN b ELSE AllButLast(b)

----------------------------------------------------------------------------
(* History of the round's most recent tick.                                *)

NoTick == [ran |-> FALSE, dir |-> RIGHT, next_head |-> None,
           wall |-> FALSE, self |-> FALSE, grow |-> FALSE]

TickRecord(dir, nh, wall, self, grow) ==
    [ran |-> TRUE, dir |-> dir, next_head |-> nh,
     wall |-> wall, self |-> self, grow |-> grow]

\* Mutant of Max: the second argument whatever the first is.
Max_Second(a, b) == b

Max(a, b) == IF a >= b THEN a ELSE b

----------------------------------------------------------------------------
(* The high score file: load_high_score / save_high_score of src/snake.py  *)
(* and _load_high_score / _save_high_score of src/game.py, which are the   *)
(* same code.  A text is a sequence of one-character strings.              *)

DecimalDigits == <<"0", "1", "2", "3", "4", "5", "6", "7", "8", "9">>

DigitChars == {DecimalDigits[i] : i \in 1..10}

Whitespace == {" ", "\n"}

\* The value of a decimal digit.
DigitValue(c) == CHOOSE d \in 0..9 : DecimalDigits[d + 1] = c

\* str(n) of an integer.
RECURSIVE str(_)
str(n) ==
    IF n < 0 THEN <<"-">> \o str(-n)
    ELSE IF n < 10 THEN <<DecimalDigits[n + 1]>>
    ELSE str(n \div 10) \o <<DecimalDigits[(n % 10) + 1]>>

RECURSIVE StripLeft(_)
StripLeft(t) ==
    IF t # <<>> /\ Head(t) \in Whitespace THEN StripLeft(Tail(t)) ELSE t

RECURSIVE StripRight(_)
StripRight(t) ==
    IF t # <<>> /\ t[Len(t)] \in Whitespace THEN StripRight(AllButLast(t)) ELSE t

\* text.strip()
strip(t) == StripRight(StripLeft(t))

\* int(t): the digits that follow the optional sign.
IntDigits(t) == IF t # <<>> /\ t[1] \in {"+", "-"} THEN Tail(t) ELSE t

\* int(t) returns: t is an optionally signed, non-empty run of digits
\* (it raises ValueError otherwise).
IntParses(t) ==
    /\ IntDigits(t) # <<>>
    /\ \A i \in 1..Len(IntDigits(t)) : IntDigits(t)[i] \in DigitChars

RECURSIVE DigitsValue(_)
DigitsValue(ds) ==
    IF ds = <<>> THEN 0
    ELSE 10 * DigitsValue(AllButLast(ds)) + DigitValue(ds[Len(ds)])

\* int(t) where it returns.
IntValue(t) ==
    IF t[1] = "-" THEN -DigitsValue(IntDigits(t)) ELSE DigitsValue(IntDigits(t))

\* The file does not exist.
NoFile == [kind |-> "missing", text |-> <<>>]

\* The file exists and reading it raises OSError.
UnreadableFile == [kind |-> "unreadable", text |-> <<>>]

\* The file holds the text t.
TextFile(t) == [kind |-> "text", text |-> t]

IsDigit(c) == c \in DigitChars

\* Mutant of load_high_score: the digits of the text are read and the rest
\* of it is skipped.
load_high_score_SkipsGarbage(f) ==
    IF f.kind # "text" THEN 0 ELSE DigitsValue(SelectSeq(f.text, IsDigit))

\* load_high_score
load_high_score(f) ==
    IF f.kind # "text" THEN 0
    ELSE IF IntParses(strip(f.text)) THEN IntValue(strip(f.text))
    ELSE 0

\* write_text(str(score)) returned.
Written(n) == TextFile(str(n))

\* write_text raised OSError: before the file was opened, or after the
\* opening truncated it.
WriteFailed(f) == {f, TextFile(<<>>)}

\* save_high_score: the file a call may leave.
save_high_score(f, n) == {Written(n)} \cup WriteFailed(f)

\* `if self.score > self.high_score:` of _advance_snake, _enter_game_over
\* and _display_game_over: the file left, with hs the high score before.
SavedIfHigher(f, hs, sc) == IF sc > hs THEN save_high_score(f, sc) ELSE {f}

----------------------------------------------------------------------------
(* GUI edition: SnakeGame of src/game.py.                                  *)
(* pc = "events": between _handle_events and _update of a frame;           *)
(* pc = "update": inside the while loop of _update;  pc = "exit": run left.*)

GuiKeys == {"ESCAPE", "RETURN", "P", "UP", "DOWN", "LEFT", "RIGHT", "OTHER"}

\* direction_keys / DIRECTION_VECTORS of _handle_key.
KeyVector(key) ==
    CASE key = "UP" -> UP
      [] key = "DOWN" -> DOWN
      [] key = "LEFT" -> LEFT
      [] key = "RIGHT" -> RIGHT

\* _reset_game_state
_reset_game_state ==
    /\ body' = CenteredBody(board.width, board.height, board.length)
    /\ direction' = RIGHT
    /\ pending' = RIGHT
    /\ previous_body' = body'
    /\ move_progress' = 0
    /\ score' = 0
    /\ victory' = FALSE
    /\ food' \in _spawn_food(body')
    /\ tick' = NoTick

\* start_game
start_game ==
    /\ _reset_game_state
    /\ state' = "PLAYING"
    /\ UNCHANGED <<high_score, file>>

\* return_to_menu
return_to_menu ==
    /\ _reset_game_state
    /\ state' = "MENU"
    /\ UNCHANGED <<high_score, file>>

GuiGameUnchanged ==
    UNCHANGED <<body, direction, pending, food, score, high_score, victory,
                previous_body, move_progress, tick, file>>

\* _handle_key
_handle_key(key) ==
    IF key = "ESCAPE" THEN return_to_menu
    ELSE IF state = "MENU" THEN
        IF key = "RETURN" THEN start_game
        ELSE GuiGameUnchanged /\ UNCHANGED state
    ELSE IF state = "GAME_OVER" THEN
        IF key = "RETURN" THEN start_game
        ELSE GuiGameUnchanged /\ UNCHANGED state
    ELSE IF key = "P" THEN
        /\ state' = (IF state = "PLAYING" THEN "PAUSED" ELSE "PLAYING")
        /\ GuiGameUnchanged
    ELSE IF key \in {"UP", "DOWN", "LEFT", "RIGHT"} THEN
        /\ pending' = QueueDirection(direction, pending, KeyVector(key))
        /\ UNCHANGED <<body, direction, food, score, high_score, victory,
                       previous_body, move_progress, tick, state, file>>
    ELSE GuiGameUnchanged /\ UNCHANGED state

\* _handle_events: the KEYDOWN event of key `key`.
GuiKeyEvent(key) ==
    /\ edition = "gui" /\ pc = "events"
    /\ _handle_key(key)
    /\ UNCHANGED <<edition, board, paused, running, pc, delta>>

\* One KEYDOWN event of _handle_events.
GuiKey == \E key \in GuiKeys : GuiKeyEvent(key)

GuiButtons == {"start", "quit", "theme", "restart", "menu", "miss"}

\* _handle_click: one left MOUSEBUTTONDOWN event, by the button under it.
_handle_click(button) ==
    IF state = "MENU" /\ button = "start" THEN start_game /\ UNCHANGED running
    ELSE IF state = "MENU" /\ button = "quit" THEN
        running' = FALSE /\ GuiGameUnchanged /\ UNCHANGED state
    ELSE IF state = "GAME_OVER" /\ button = "restart" THEN
        start_game /\ UNCHANGED running
    ELSE IF state = "GAME_OVER" /\ button = "menu" THEN
        return_to_menu /\ UNCHANGED running
    ELSE GuiGameUnchanged /\ UNCHANGED <<state, running>>

GuiClick ==
    /\ edition = "gui" /\ pc = "events"
    /\ \E button \in GuiButtons : _handle_click(button)
    /\ UNCHANGED <<edition, board, paused, pc, delta>>

\* The QUIT event of _handle_events: quit().
GuiQuit ==
    /\ edition = "gui" /\ pc = "events"
    /\ running
    /\ running' = FALSE
    /\ GuiGameUnchanged
    /\ UNCHANGED <<edition, board, paused, state, pc, delta>>

\* End of a frame: `while self.running` is tested again.
FrameEnd(run) == IF run THEN "events" ELSE "exit"

\* Mutant of _enter_game_over: move_progress is not cleared.
_enter_game_over_KeepProgress(v, hs, f) ==
    /\ victory' = v
    /\ state' = "GAME_OVER"
    /\ move_progress' = move_progress
    /\ high_score' = Max(hs, score')
    /\ file' \in SavedIfHigher(f, hs, score')

\* _enter_game_over(victory), with hs the high score and f the file on entry.
_enter_game_over(v, hs, f) ==
    /\ victory' = v
    /\ state' = "GAME_OVER"
    /\ move_progress' = 0
    /\ high_score' = Max(hs, score')
    /\ file' \in SavedIfHigher(f, hs, score')

\* Mutant of GuiBoardFilled: the comparison is strict.
GuiBoardFilled_Strict(f, b) == f = None /\ Len(b) > board.width * board.height

\* _advance_snake: the board-fill test that follows the move.
GuiBoardFilled(f, b) == f = None /\ Len(b) >= board.width * board.height

\* Mutant of PreviousBody: the old tail is not repeated on a growing move.
PreviousBody_NoAppend(old_body, will_grow) == old_body

\* _advance_snake: previous_body after a move of old_body.
PreviousBody(old_body, will_grow) ==
    IF will_grow THEN Append(old_body, old_body[Len(old_body)]) ELSE old_body

\* Mutant of _advance_snake: the next head is computed before the queued
\* direction is committed.
_advance_snake_HeadBeforeCommit(mp) ==
    LET dir == pending
        next_head == Add(body[1], direction)
        hit_wall == ~_within_bounds(next_head)
        hit_self == next_head \in Cells(GuiBodyToCheck(body))
        will_grow == food # None /\ next_head = food
    IN  /\ direction' = dir
        /\ pending' = pending
        /\ IF hit_wall \/ hit_self THEN
              /\ UNCHANGED <<body, food, score, previous_body>>
              /\ _enter_game_over(FALSE, high_score, file)
              /\ tick' = TickRecord(dir, next_head, hit_wall,
                                    ~hit_wall /\ hit_self, FALSE)
           ELSE
              /\ body' = Move(body, dir, will_grow)
              /\ previous_body' = PreviousBody(body, will_grow)
              /\ score' = (IF will_grow THEN score + 1 ELSE score)
              /\ IF will_grow THEN food' \in _spawn_food(body')
                 ELSE food' = food
              /\ tick' = TickRecord(dir, next_head, FALSE, FALSE, will_grow)
              /\ LET hs == IF will_grow THEN Max(high_score, score') ELSE high_score
                     fs == IF will_grow
                           THEN SavedIfHigher(file, high_score, score')
                           ELSE {file}
                 IN  \E f \in fs :
                        IF GuiBoardFilled(food', body')
                        THEN _enter_game_over(TRUE, hs, f)
                        ELSE /\ high_score' = hs
                             /\ file' = f
                             /\ move_progress' = mp
                             /\ UNCHANGED <<victory, state>>

\* _advance_snake, with mp the move_progress left by the caller.
_advance_snake(mp) ==
    LET dir == pending
        next_head == Add(body[1], dir)
        hit_wall == ~_within_bounds(next_head)
        hit_self == next_head \in Cells(GuiBodyToCheck(body))
        will_grow == food # None /\ next_head = food
    IN  /\ direction' = dir
        /\ pending' = pending
        /\ IF hit_wall \/ hit_self THEN
              /\ UNCHANGED <<body, food, score, previous_body>>
              /\ _enter_game_over(FALSE, high_score, file)
              /\ tick' = TickRecord(dir, next_head, hit_wall,
                                    ~hit_wall /\ hit_self, FALSE)
           ELSE
              /\ body' = Move(body, dir, will_grow)
              /\ previous_body' = PreviousBody(body, will_grow)
              /\ score' = (IF will_grow THEN score + 1 ELSE score)
              /\ IF will_grow THEN food' \in _spawn_food(body')
                 ELSE food' = food
              /\ tick' = TickRecord(dir, next_head, FALSE, FALSE, will_grow)
              /\ LET hs == IF will_grow THEN Max(high_score, score') ELSE high_score
                     fs == IF will_grow
                           THEN SavedIfHigher(file, high_score, score')
                           ELSE {file}
                 IN  \E f \in fs :
                        IF GuiBoardFilled(food', body')
                        THEN _enter_game_over(TRUE, hs, f)
                        ELSE /\ high_score' = hs
                             /\ file' = f
                             /\ move_progress' = mp
                             /\ UNCHANGED <<victory, state>>

\* Mutant of GuiUpdate: the PAUSED state does not return early.
GuiUpdate_PausedAccumulates ==
    /\ edition = "gui" /\ pc = "events"
    /\ \E dt \in 1..MaxDt :
          IF state \notin {"PLAYING", "PAUSED"} THEN
              /\ pc' = FrameEnd(running)
              /\ UNCHANGED move_progress
          ELSE
              /\ move_progress' = move_progress + dt
              /\ pc' = (IF move_progress' >= MOVE_INTERVAL THEN "update"
                        ELSE FrameEnd(running))
    /\ UNCHANGED <<edition, board, body, direction, pending, food, score, high_score,
                   state, paused, victory, previous_body, running, tick, delta,
                   file>>

\* _update(dt) up to the while loop.
GuiUpdate ==
    /\ edition = "gui" /\ pc = "events"
    /\ \E dt \in 1..MaxDt :
          IF state # "PLAYING" THEN
              /\ pc' = FrameEnd(running)
              /\ UNCHANGED move_progress
          ELSE
              /\ move_progress' = move_progress + dt
              /\ pc' = (IF move_progress' >= MOVE_INTERVAL THEN "update"
                        ELSE FrameEnd(running))
    /\ UNCHANGED <<edition, board, body, direction, pending, food, score, high_score,
                   state, paused, victory, previous_body, running, tick, delta,
                   file>>

\* One iteration of the while loop of _update.
GuiTick ==
    /\ edition = "gui" /\ pc = "update"
    /\ _advance_snake(move_progress - MOVE_INTERVAL)
    /\ pc' = (IF state' # "GAME_OVER" /\ move_progress' >= MOVE_INTERVAL
              THEN "update" ELSE FrameEnd(running))
    /\ UNCHANGED <<edition, board, paused, running, delta>>

----------------------------------------------------------------------------
(* Terminal edition: SnakeGame of src/snake.py.                            *)
(* pc = "input": at the getch of _handle_input;  pc = "update": back in    *)
(* run, _handle_input having returned after a key;  pc = "over": at the    *)
(* getch of _handle_game_over_input;  pc = "exit": run left.               *)

TermKeys == {"q", "p", "r", "UP", "DOWN", "LEFT", "RIGHT", "OTHER"}

TermUnused == UNCHANGED <<edition, board, pending, previous_body, move_progress>>

\* _handle_input: the handling of one key returned by getch.
_handle_input(key) ==
    /\ edition = "term" /\ pc = "input"
    /\ IF key = "q" THEN
          /\ running' = FALSE /\ pc' = "exit"
          /\ UNCHANGED <<paused, direction>>
       ELSE IF key = "p" THEN
          /\ paused' = ~paused
          /\ UNCHANGED <<running, pc, direction>>
       ELSE IF key \in {"UP", "DOWN", "LEFT", "RIGHT"} THEN
          /\ direction' = set_direction(direction, KeyVector(key))
          /\ pc' = "update"
          /\ UNCHANGED <<running, paused>>
       ELSE
          /\ pc' = "update"
          /\ UNCHANGED <<running, paused, direction>>
    /\ UNCHANGED <<body, food, score, high_score, state, victory, tick, delta,
                   file>>
    /\ TermUnused

\* _handle_input: one key returned by getch.
TermKey == \E key \in TermKeys : _handle_input(key)

\* _update: the board-fill test that follows the move.
TermBoardFilled(f, b) == f = None /\ Len(b) = board.width * board.height

\* _update
TermUpdate ==
    LET next_head == Add(body[1], direction)
        hit_wall == _hit_wall(next_head[1], next_head[2])
        will_grow == food # None /\ next_head = food
        hit_self == next_head \in Cells(TermBodyToCheck(body, will_grow))
    IN  IF hit_wall \/ hit_self THEN
            /\ state' = "GAME_OVER"
            /\ UNCHANGED <<body, food, score>>
            /\ tick' = TickRecord(direction, next_head, hit_wall,
                                  ~hit_wall /\ hit_self, FALSE)
        ELSE
            /\ body' = Move(body, direction, will_grow)
            /\ score' = (IF will_grow THEN score + 1 ELSE score)
            /\ IF will_grow THEN food' \in _place_food(body')
               ELSE food' = food
            /\ tick' = TickRecord(direction, next_head, FALSE, FALSE, will_grow)
            /\ state' = (IF TermBoardFilled(food', body')
                         THEN "GAME_OVER" ELSE state)

\* The title _display_game_over shows is " YOU WIN! ".
TermTitleIsWin(f, b) == f = None /\ Len(b) = board.width * board.height

\* run: the delta of a loop iteration, after its sleep.
TermDeltas == {Max(elapsed, TICK_RATE) : elapsed \in 1..MaxDelta}

\* Mutant of TermTick: a paused iteration runs _update too.
TermTick_NoPauseCheck ==
    /\ edition = "term" /\ pc \in {"input", "update"}
    /\ delta' \in TermDeltas
    /\ TermUpdate
    /\ IF state' = "GAME_OVER" THEN
          /\ high_score' = Max(high_score, score')
          /\ file' \in SavedIfHigher(file, high_score, score')
          /\ victory' = TermTitleIsWin(food', body')
          /\ pc' = "over"
       ELSE /\ pc' = "input"
            /\ UNCHANGED <<high_score, victory, file>>
    /\ UNCHANGED <<direction, paused, running>>
    /\ TermUnused

\* run: the rest of a loop iteration once _handle_input is left, by a key
\* or by the getch that returned -1; the time of the iteration is taken
\* with it.
TermTick ==
    /\ edition = "term" /\ pc \in {"input", "update"}
    /\ delta' \in TermDeltas
    /\ IF paused THEN
          /\ pc' = "input"
          /\ UNCHANGED <<body, food, score, high_score, state, victory, tick,
                         file>>
       ELSE
          /\ TermUpdate
          /\ IF state' = "GAME_OVER" THEN
                /\ high_score' = Max(high_score, score')
                /\ file' \in SavedIfHigher(file, high_score, score')
                /\ victory' = TermTitleIsWin(food', body')
                /\ pc' = "over"
             ELSE /\ pc' = "input"
                  /\ UNCHANGED <<high_score, victory, file>>
    /\ UNCHANGED <<direction, paused, running>>
    /\ TermUnused

\* Mutant of _reset: the score is not cleared.
_reset_KeepScore ==
    /\ body' = _create_initial_snake
    /\ direction' = RIGHT
    /\ score' = score
    /\ paused' = FALSE
    /\ state' = "PLAYING"
    /\ food' \in _place_food(body')
    /\ victory' = FALSE
    /\ tick' = NoTick

\* _reset
_reset ==
    /\ body' = _create_initial_snake
    /\ direction' = RIGHT
    /\ score' = 0
    /\ paused' = FALSE
    /\ state' = "PLAYING"
    /\ food' \in _place_food(body')
    /\ victory' = FALSE
    /\ tick' = NoTick

\* _handle_game_over_input: one key returned by the blocking getch.
TermGameOverKey ==
    /\ edition = "term" /\ pc = "over"
    /\ \E key \in TermKeys :
          IF key = "q" THEN
              /\ running' = FALSE /\ pc' = "exit"
              /\ UNCHANGED <<body, direction, score, paused, state, food,
                             victory, tick>>
          ELSE IF key = "r" THEN
              /\ _reset
              /\ pc' = "input"
              /\ UNCHANGED running
          ELSE UNCHANGED <<body, direction, score, paused, state, food,
                           victory, tick, running, pc>>
    /\ UNCHANGED <<high_score, delta, file>>
    /\ TermUnused

----------------------------------------------------------------------------

\* The high score file a process may find at start-up: none, one an earlier
\* run wrote, or one holding something else.
StoredFiles ==
    {NoFile, TextFile(<<"x">>)}
      \cup {TextFile(str(n)) : n \in (-1)..MaxStoredHighScore}

\* SnakeGame.__init__ of either edition.
Init ==
    /\ edition \in {"gui", "term"}
    /\ board = (IF edition = "gui"
                THEN [width |-> GRID_WIDTH, height |-> GRID_HEIGHT,
                      length |-> INITIAL_SNAKE_LENGTH]
                ELSE [width |-> BOARD_WIDTH, height |-> BOARD_HEIGHT,
                      length |-> INITIAL_SNAKE_LENGTH])
    /\ file \in StoredFiles
    /\ high_score = load_high_score(file)
    /\ score = 0
    /\ direction = RIGHT
    /\ pending = RIGHT
    /\ paused = FALSE
    /\ victory = FALSE
    /\ move_progress = 0
    /\ running = TRUE
    /\ tick = NoTick
    /\ delta = 0
    /\ IF edition = "gui" THEN
          /\ body = CenteredBody(board.width, board.height, board.length)
          /\ previous_body = body
          /\ food \in _spawn_food(body)
          /\ state = "MENU"
          /\ pc = "events"
       ELSE
          /\ body = _create_initial_snake
          /\ previous_body = <<>>
          /\ food \in _place_food(body)
          /\ state = "PLAYING"
          /\ pc = "input"

Next ==
    \/ GuiKey
    \/ GuiClick
    \/ GuiQuit
    \/ GuiUpdate
    \/ GuiTick
    \/ TermKey
    \/ TermTick
    \/ TermGameOverKey

Spec == Init /\ [][Next]_vars

----------------------------------------------------------------------------
(* Restart on any board: the reset of either edition applied to every      *)
(* board of up to MaxWidth x MaxHeight cells and every initial length up   *)
(* to the width.  InitReset is a finished round awaiting its restart; the  *)
(* reset reads nothing of the old snake, which is left empty.              *)

MaxWidth == 5
MaxHeight == 3

Boards ==
    {[width |-> w, height |-> h, length |-> l] :
        w \in 1..MaxWidth, h \in 1..MaxHeight, l \in 1..MaxWidth}

InitReset ==
    /\ edition \in {"gui", "term"}
    /\ board \in {b \in Boards : b.length <= b.width}
    /\ file \in StoredFiles
    /\ high_score = load_high_score(file)
    /\ score = 0
    /\ body = <<>>
    /\ direction = RIGHT
    /\ pending = RIGHT
    /\ food = None
    /\ paused = FALSE
    /\ victory = FALSE
    /\ previous_body = <<>>
    /\ move_progress = 0
    /\ running = TRUE
    /\ state = "GAME_OVER"
    /\ pc = "reset"
    /\ tick = NoTick
    /\ delta = 0

\* start_game (GUI) or _reset (terminal) on the board drawn by InitReset.
ResetRound ==
    /\ pc = "reset"
    /\ IF edition = "gui" THEN
          /\ start_game
          /\ pc' = "events"
          /\ UNCHANGED paused
       ELSE
          /\ _reset
          /\ pc' = "input"
          /\ UNCHANGED <<high_score, pending, previous_body, move_progress>>
    /\ UNCHANGED <<edition, board, running, delta, file>>

SpecReset == InitReset /\ [][ResetRound]_vars

----------------------------------------------------------------------------
(* The high score file on its own: save_high_score of any high score over  *)
(* any file, and load_high_score of what is found, as at the end of a      *)
(* round and at the next start-up.  pc = "save": a new high score is in    *)
(* memory;  "saved" / "save_failed": write_text returned / raised;         *)
(* "loaded": load_high_score returned.                                     *)

FileChars == {"0", "7", "9", "-", " ", "x"}

\* The texts of at most n characters.
Texts(n) == UNION {[1..k -> FileChars] : k \in 0..n}

Files == {NoFile, UnreadableFile} \cup {TextFile(t) : t \in Texts(MaxTextLen)}

InitFile ==
    /\ edition \in {"gui", "term"}
    /\ board = (IF edition = "gui"
                THEN [width |-> GRID_WIDTH, height |-> GRID_HEIGHT,
                      length |-> INITIAL_SNAKE_LENGTH]
                ELSE [width |-> BOARD_WIDTH, height |-> BOARD_HEIGHT,
                      length |-> INITIAL_SNAKE_LENGTH])
    /\ file \in Files
    /\ high_score \in 0..MaxSaved
    /\ score = high_score
    /\ body = <<>>
    /\ direction = RIGHT
    /\ pending = RIGHT
    /\ food = None
    /\ paused = FALSE
    /\ victory = FALSE
    /\ previous_body = <<>>
    /\ move_progress = 0
    /\ running = TRUE
    /\ state = "GAME_OVER"
    /\ pc = "save"
    /\ tick = NoTick
    /\ delta = 0

FileGameUnchanged ==
    UNCHANGED <<edition, board, body, direction, pending, food, score, state,
                paused, victory, previous_body, move_progress, running, tick,
                delta>>

\* save_high_score(self.high_score)
FileSave ==
    /\ pc = "save"
    /\ file' \in save_high_score(file, high_score)
    /\ pc' = (IF file' = Written(high_score) THEN "saved" ELSE "save_failed")
    /\ UNCHANGED high_score
    /\ FileGameUnchanged

\* self.high_score = load_high_score()
FileLoad ==
    /\ pc \in {"save", "saved", "save_failed"}
    /\ high_score' = load_high_score(file)
    /\ pc' = "loaded"
    /\ UNCHANGED file
    /\ FileGameUnchanged

SpecFile == InitFile /\ [][FileSave \/ FileLoad]_vars

----------------------------------------------------------------------------
(* Notions of the specification the claims are stated in.                  *)

\* The playable interior: [0,w) x [0,h) in the GUI edition, [1,w] x [1,h]
\* inside the one-cell border in the terminal edition.
Interior ==
    IF edition = "gui"
    THEN {<<x, y>> : x \in 0..(board.width - 1), y \in 0..(board.height - 1)}
    ELSE {<<x, y>> : x \in 1..board.width, y \in 1..board.height}

NoDuplicates(s) == \A i, j \in 1..Len(s) : i # j => s[i] # s[j]

Opposite(d, e) == d[1] = -e[1] /\ d[2] = -e[2]

\* A step is a tick: the tick history is rewritten by a tick that ran.  (Two
\* ticks of a round never compute the same record: a tick that moves the head
\* changes the candidate head of the next, one that does not ends the round.)
IsTick == tick'.ran /\ tick' # tick

\* The segments still occupied after a move to candidate head nh: all of the
\* body on a growing move, all but the vacating tail otherwise.
StillOccupied(b, f, nh) ==
    IF f # None /\ nh = f THEN Cells(b) ELSE Cells(AllButLast(b))

\* C1: in every reachable state the body has at least one segment and no
\* position occurs in it twice.
C1_BodyNonEmptyDistinct == Len(body) >= 1 /\ NoDuplicates(body)

\* C1 witness: the snake has coiled (five or more segments) and has just eaten.
C1_Witness == tick.ran /\ tick.grow /\ Len(body) >= 5 /\ state # "GAME_OVER"

\* C2: the direction used on a tick is never the exact opposite of the
\* direction used on the previous tick of the round, whatever was typed
\* between them.
C2_NoReversal ==
    [][(IsTick /\ tick.ran) => ~Opposite(tick'.dir, tick.dir)]_vars

\* C2 in the GUI edition, where a request is queued and compared with the
\* committed direction.
C2_GuiNoReversal ==
    [][(edition = "gui" /\ IsTick /\ tick.ran)
         => ~Opposite(tick'.dir, tick.dir)]_vars

\* C2, the effect on a snake with a neck: in the terminal edition a tick used
\* the reversed direction, found the neck as candidate head and ended the
\* round with a self hit.
C2_ReversalHitsNeck ==
    /\ edition = "term" /\ tick.ran /\ tick.self
    /\ Len(body) >= 3 /\ tick.next_head = body[2]

\* C3: every body cell lies in the playable interior, in every state, the
\* one left by the tick that ends the round included.
C3_BodyInsideInterior == Cells(body) \subseteq Interior

\* C3 witness: a tick ran into the wall and ended the round.
C3_Witness == state = "GAME_OVER" /\ tick.ran /\ tick.wall

\* C4: when the wall check passes, the tick reports a self hit exactly when
\* the candidate head is a segment still occupied after the move (the tail
\* counts only on a growing move).
C4_SelfHitIffStillOccupied ==
    [][(IsTick /\ ~tick'.wall)
         => (tick'.self <=> tick'.next_head \in StillOccupied(body, food, tick'.next_head))]_vars

\* C4 witness: a tick reported a self hit.
C4_Witness == tick.ran /\ tick.self

\* C4, the excluded tail: a tick moved the head onto the cell the tail was
\* leaving (GUI edition, where previous_body keeps the body before the move).
C4_TailWitness ==
    /\ edition = "gui" /\ tick.ran /\ ~tick.wall /\ ~tick.self /\ ~tick.grow
    /\ previous_body[Len(previous_body)] = body[1]

\* Candidate heads up to two cells off the board on every side.
Probes == {<<x, y>> : x \in (-2)..(board.width + 3), y \in (-2)..(board.height + 3)}

\* The wall check of the running edition.
WallHit(p) == IF edition = "gui" THEN ~_within_bounds(p) ELSE _hit_wall(p[1], p[2])

\* C5: the wall check reports a hit for every position outside the playable
\* interior and for none inside it: for the candidate head of every tick, and
\* for every position near the board.
C5_WallHitIffOutside ==
    /\ tick.ran => (tick.wall <=> tick.next_head \notin Interior)
    /\ \A p \in Probes : WallHit(p) <=> p \notin Interior

\* C5 witness: a tick's candidate head was outside the interior.
C5_Witness == tick.ran /\ tick.wall /\ tick.next_head \notin Interior

\* The board is full: the body covers the playable interior.
Full == Interior \subseteq Cells(body)

\* C6: food placement (at round start and after a growing tick) never puts
\* food on a body cell, puts it on an interior cell when it places any, and
\* places none exactly when the body covers every cell of the board.
C6_SpawnFoodFreeCell ==
    (~tick.ran \/ tick.grow) =>
        /\ food # None => (food \in Interior /\ food \notin Cells(body))
        /\ food = None <=> Full

\* C6 witness: a growing tick filled the board and no food was placed.
C6_Witness == tick.ran /\ tick.grow /\ food = None /\ Full

\* C6, the usual case: a growing tick was followed by a placement.
C6_PlacedWitness == tick.ran /\ tick.grow /\ food # None /\ Len(body) >= 3

\* The candidate head of the tick that starts in the current state.
TickHead == Add(body[1], IF edition = "gui" THEN pending ELSE direction)

\* C7: a tick whose candidate head is the food cell and that detects no
\* collision lengthens the body by one, adds one to the score and moves the
\* food to a cell free of the grown body (or removes it when none is free);
\* every other tick leaves the score alone.
C7_EatGrowsAndScores ==
    [][IsTick =>
         IF food # None /\ TickHead = food /\ ~tick'.wall /\ ~tick'.self
         THEN /\ Len(body') = Len(body) + 1
              /\ score' = score + 1
              /\ \/ food' \in Interior \ Cells(body')
                 \/ food' = None /\ Interior \subseteq Cells(body')
         ELSE score' = score]_vars

\* C7 witness: the snake has eaten at least twice, the last time on the most
\* recent tick.
C7_Witness == tick.ran /\ tick.grow /\ score >= 2 /\ food # None

\* C8: a tick whose candidate head is outside the interior or on a segment
\* that stays occupied ends the round as a loss and applies no move: body,
\* score and food are as before the tick.
C8_CollisionEndsRoundUnmoved ==
    [][(IsTick /\ (\/ TickHead \notin Interior
                   \/ TickHead \in StillOccupied(body, food, TickHead)))
         => /\ state' = "GAME_OVER"
            /\ ~victory'
            /\ body' = body
            /\ score' = score
            /\ food' = food]_vars

\* C8 witness: a round ended on a self hit of a snake that had eaten.
C8_Witness == state = "GAME_OVER" /\ tick.ran /\ tick.self /\ score >= 1

\* C9: the round is over with the win reason exactly when the body covers
\* the whole board and no food remains; that state is entered by the tick
\* that ate the last free cell (no state with a full board is still in
\* play), and a round ended by a wall or self hit never shows the win reason.
C9_WinIffBoardFilled ==
    /\ victory <=> (Full /\ food = None)
    /\ victory => (state = "GAME_OVER" /\ tick.ran /\ tick.grow)
    /\ Full => state = "GAME_OVER"
    /\ (tick.ran /\ (tick.wall \/ tick.self)) => ~victory

\* C9 witness: a round was won.
C9_Witness == state = "GAME_OVER" /\ victory /\ Len(body) = board.width * board.height

\* The centred horizontal layout of C10: head at (w/2, h/2), the rest
\* extending in the negative-x direction, heading right.
C10_Layout ==
    /\ Len(body) = board.length
    /\ NoDuplicates(body)
    /\ Cells(body) \subseteq Interior
    /\ \A i \in 1..Len(body) :
          body[i] = <<(board.width \div 2) - (i - 1), board.height \div 2>>
    /\ direction = RIGHT
    /\ edition = "gui" => pending = direction

\* C10 as claimed: after reset on any board with 1 <= L <= w the body has
\* the centred layout within the playable bounds.
C10_ResetAnyLength == pc # "reset" => C10_Layout

\* The initial lengths that fit between the centre column and the left edge:
\* L <= w/2 + 1 in the GUI edition; L <= w/2 on a board of height >= 2 in the
\* terminal edition, whose centre is taken in border coordinates.
C10_Fits ==
    IF edition = "gui" THEN board.length <= (board.width \div 2) + 1
    ELSE board.length <= board.width \div 2 /\ board.height >= 2

\* C10 amended: after reset on a board whose initial length fits left of the
\* centre column, the body has the centred layout within the playable
\* bounds, heading right with the pending direction equal to it.
C10_ResetFittingLength == (pc # "reset" /\ C10_Fits) => C10_Layout

\* C10, the converse: a length that does not fit leaves a cell off the board.
C10_UnfitLeavesBoard ==
    (pc # "reset" /\ ~C10_Fits) => ~(Cells(body) \subseteq Interior)

\* C10 witness: a reset laid out a body of three cells.
C10_Witness == pc # "reset" /\ C10_Fits /\ Len(body) = 3 /\ body[3] = <<0, 1>>

----------------------------------------------------------------------------

DirectionKeys == {"UP", "DOWN", "LEFT", "RIGHT"}

\* A direction request is being taken: play is on (or paused) and the loop
\* is reading input.
TakingDirections ==
    IF edition = "gui" THEN state \in {"PLAYING", "PAUSED"} ELSE pc = "input"

\* The direction last committed: the one the snake last moved with (the
\* GUI's direction; in the terminal edition the direction of the round's most
\* recent tick, the initial heading before the first).
Committed == IF edition = "gui" THEN direction ELSE tick.dir

\* The queued direction: the one the next tick will use.
Queued == IF edition = "gui" THEN pending ELSE direction

\* The effect C11 gives a request for vector v.
C11_Effect(v, queued_after) ==
    /\ IF Opposite(v, Committed) THEN queued_after = Queued
       ELSE queued_after = v
    /\ body' = body

\* C11: a request for the exact opposite of the last committed direction
\* changes nothing, the queued direction keeping its value; a request for any
\* other cardinal vector makes it the queued direction; neither touches the
\* body.
C11_QueueDirection ==
    [][\A key \in DirectionKeys :
         (TakingDirections /\ (GuiKeyEvent(key) \/ _handle_input(key)))
           => C11_Effect(KeyVector(key), IF edition = "gui" THEN pending' ELSE direction')]_vars

\* C11 in the GUI edition.
C11_GuiQueueDirection ==
    [][\A key \in DirectionKeys :
         (TakingDirections /\ GuiKeyEvent(key))
           => C11_Effect(KeyVector(key), pending')]_vars

\* C11, the case of a queued turn: in the GUI edition a reversing request was
\* dropped while a turn was queued, and the turn stayed queued.
C11_GuiWitness ==
    /\ edition = "gui" /\ state = "PLAYING" /\ tick.ran
    /\ pending # direction /\ ~Opposite(pending, direction)

\* The tick that starts in the current state finds food at its candidate head.
TickEats == food # None /\ TickHead = food

\* A step is a tick that applies a move: it reports no collision.
IsMove == IsTick /\ ~tick'.wall /\ ~tick'.self

\* The direction of the tick that starts in the current state.
TickDir == IF edition = "gui" THEN pending ELSE direction

\* C12: a move without growth keeps the body length and a move with growth
\* adds exactly one; either way the new head is the old head plus the
\* direction, at the front of the body.
C12_AdvanceLengthAndHead ==
    [][IsMove =>
         /\ Len(body') = Len(body) + (IF TickEats THEN 1 ELSE 0)
         /\ body'[1] = Add(body[1], TickDir)
         /\ direction' = TickDir]_vars

\* C12 witness: a snake of three or more segments moved without growing.
C12_Witness ==
    /\ tick.ran /\ ~tick.wall /\ ~tick.self /\ ~tick.grow
    /\ Len(body) >= 3 /\ body[1] = tick.next_head

\* C12, the growing move: a snake grew to four or more segments.
C12_GrowWitness ==
    /\ tick.ran /\ tick.grow /\ Len(body) >= 4 /\ body[1] = tick.next_head

\* A tick that neither collides nor eats.
IsPlainMove == IsMove /\ ~TickEats

\* The shift of a plain move: the head advances, every other segment takes
\* the place of the one before it, the tail leaves its cell (which only the
\* new head may enter), and length, score, high score and food stay.
C13_Shift ==
    /\ Len(body') = Len(body)
    /\ body'[1] = Add(body[1], TickDir)
    /\ \A i \in 2..Len(body) : body'[i] = body[i - 1]
    /\ \A i \in 2..Len(body') : body'[i] # body[Len(body)]
    /\ body'[Len(body')] # body[Len(body)]
    /\ score' = score
    /\ high_score' = high_score
    /\ food' = food

\* The body lies in a straight line along d, head foremost.
Straight(b, d) == \A i \in 2..Len(b) : b[i - 1] = Add(b[i], d)

\* Every segment moves one cell in the direction of the move.
C13_AllSegmentsAdvance ==
    \A i \in 1..Len(body) : body'[i] = Add(body[i], TickDir)

\* C13 as claimed: a plain move shifts the body, and with it every segment
\* moves one cell in the direction of the move (so n cells in n moves).
C13_ShiftMovesEverySegment ==
    [][IsPlainMove => (C13_Shift /\ C13_AllSegmentsAdvance)]_vars

\* C13 amended: a plain move shifts the body; the head moves one cell in the
\* direction of the move, and when the body lies straight along that
\* direction every segment does and the body stays straight (so n moves in
\* that direction carry every segment n cells).
C13_ShiftMovesStraightBody ==
    [][IsPlainMove =>
         /\ C13_Shift
         /\ Straight(body, TickDir) =>
               (C13_AllSegmentsAdvance /\ Straight(body', TickDir))]_vars

\* C13 witness: a straight body of two or more segments was carried one cell
\* along its line (GUI edition, where previous_body keeps the body before).
C13_Witness ==
    /\ edition = "gui" /\ tick.ran /\ ~tick.wall /\ ~tick.self /\ ~tick.grow
    /\ Len(body) >= 2 /\ Len(previous_body) = Len(body)
    /\ Straight(previous_body, tick.dir) /\ Straight(body, tick.dir)
    /\ body[1] = tick.next_head

\* C13, the bent body: a plain move on which some segment did not move in the
\* direction of the move.
C13_BentWitness ==
    /\ edition = "gui" /\ tick.ran /\ ~tick.wall /\ ~tick.self /\ ~tick.grow
    /\ Len(body) >= 3 /\ Len(previous_body) = Len(body)
    /\ body[1] = tick.next_head
    /\ \E i \in 1..Len(body) : body[i] # Add(previous_body[i], tick.dir)

\* The tick interval of the edition.
Interval == IF edition = "gui" THEN MOVE_INTERVAL ELSE TICK_RATE

\* The step ends a frame (GUI) or loop iteration (terminal) of play that
\* leaves the round in play.
FramePlayed ==
    IF edition = "gui"
    THEN /\ GuiUpdate \/ GuiTick
         /\ state = "PLAYING" /\ state' = "PLAYING" /\ pc' # "update"
    ELSE TermTick /\ ~paused /\ state' = "PLAYING"

\* Play time that has elapsed and that no tick has been run for.
Unticked == IF edition = "gui" THEN move_progress ELSE delta - TICK_RATE

\* The step takes the time of a frame of play into account.
TimePasses ==
    IF edition = "gui" THEN GuiUpdate /\ state = "PLAYING"
    ELSE TermTick /\ ~paused

\* C14: tick pacing is catch-up, not skip.  Elapsed play time is kept (a
\* frame adds its time to what the frames before left), every tick uses up
\* exactly one tick interval of it, and no frame ends while a whole interval
\* is left: a frame delayed by k intervals runs k ticks.
C14_CatchUpNotSkip ==
    [][/\ FramePlayed => (Unticked' >= 0 /\ Unticked' < Interval)
       /\ (edition = "gui" /\ TimePasses) => move_progress' > move_progress
       /\ (edition = "gui" /\ IsTick /\ state' = "PLAYING") =>
             move_progress' = move_progress - MOVE_INTERVAL]_vars

\* C14 in the GUI edition alone.
C14_GuiCatchUpNotSkip ==
    [][edition = "gui" =>
         /\ FramePlayed => (Unticked' >= 0 /\ Unticked' < Interval)
         /\ TimePasses => move_progress' > move_progress
         /\ (IsTick /\ state' = "PLAYING") =>
               move_progress' = move_progress - MOVE_INTERVAL]_vars

\* C14, GUI edition: a second tick ran in one frame, and time is left over.
C14_GuiWitness ==
    /\ edition = "gui" /\ state = "PLAYING" /\ pc = "events" /\ tick.ran
    /\ move_progress = 1 /\ Len(body) >= 2

\* C14, terminal edition: an iteration two intervals long ran its one tick.
C14_TermSkipWitness ==
    /\ edition = "term" /\ state = "PLAYING" /\ pc = "input" /\ tick.ran
    /\ delta >= 2 * TICK_RATE

\* C15: once a tick has entered GameOver no further tick runs, in that frame
\* or a later one: the loop of the frame is left and the accumulated time is
\* discarded, and as long as the round stays in GameOver the body, the
\* score, the food and the direction (committed and queued) do not change.
C15_GameOverFreezes ==
    [][/\ state' = "GAME_OVER" =>
             (pc' # "update" /\ move_progress' = 0)
       /\ (state = "GAME_OVER" /\ state' = "GAME_OVER") =>
             UNCHANGED <<body, score, food, direction, pending, tick,
                         move_progress, high_score>>]_vars

\* C15 witness: a collision ended a round of a snake of two or more segments
\* and frames have been run since (GUI) or the dialog is up (terminal).
C15_Witness ==
    /\ state = "GAME_OVER" /\ tick.ran /\ (tick.wall \/ tick.self)
    /\ Len(body) >= 2 /\ pc \in {"events", "over"} /\ move_progress = 0

\* C15, the discarded ticks: a tick about to hit the wall with two or more
\* whole intervals accumulated.
C15_PendingTicksWitness ==
    /\ edition = "gui" /\ pc = "update" /\ move_progress >= 2 * MOVE_INTERVAL
    /\ ~_within_bounds(TickHead)

\* The round is paused.
IsPaused ==
    IF edition = "gui" THEN state = "PAUSED"
    ELSE paused /\ pc \in {"input", "update"}

\* The round is in play and not paused.
IsPlaying ==
    /\ state = "PLAYING" /\ pc # "exit"
    /\ edition = "term" => ~paused

\* C16: pausing changes only the pause flag/state; while paused no tick runs
\* and body, score, food and accumulated tick time stay; resuming play
\* keeps the accumulated tick time, which is therefore that of the pause.
C16_PauseFreezes ==
    [][/\ (IsPlaying /\ IsPaused') =>
             UNCHANGED <<body, direction, pending, food, score, high_score,
                         victory, previous_body, move_progress, running, pc,
                         tick>>
       /\ (IsPaused /\ IsPaused') =>
             (~IsTick /\ UNCHANGED <<body, score, food, move_progress, tick>>)
       /\ (IsPaused /\ IsPlaying') =>
             UNCHANGED <<body, direction, pending, food, score, high_score,
                         victory, previous_body, move_progress, running, pc,
                         tick>>]_vars

\* C16 witness: a round paused with tick time accumulated, after a tick.
C16_Witness ==
    /\ edition = "gui" /\ state = "PAUSED" /\ pc = "events"
    /\ tick.ran /\ move_progress = 1

\* C16, terminal edition: a paused round after a tick.
C16_TermWitness ==
    /\ edition = "term" /\ paused /\ pc = "input" /\ tick.ran /\ Len(body) >= 2

\* C17: a tick that eats raises the high score to the new score when that
\* is higher, within the tick; so after every tick of a round the high score
\* is at least the score.
C17_HighScoreFollowsScore ==
    [][IsTick =>
         /\ TickEats => high_score' = Max(high_score, score + 1)
         /\ high_score' >= score']_vars

\* C17 in the GUI edition alone, started on a high score that is not
\* negative.
C17_GuiHighScoreFollowsScore ==
    [][(edition = "gui" /\ IsTick) =>
         /\ TickEats => high_score' = Max(high_score, score + 1)
         /\ high_score >= 0 => high_score' >= score']_vars

\* C17, GUI edition: a round in play has raised the high score.
C17_GuiWitness ==
    /\ edition = "gui" /\ state = "PLAYING" /\ tick.ran /\ tick.grow
    /\ score > MaxStoredHighScore /\ high_score = score

\* C17, terminal edition: a round in play whose score is above the high score.
C17_TermBehindWitness ==
    /\ edition = "term" /\ state = "PLAYING" /\ tick.ran /\ score > high_score

\* The step starts a round: out of the menu or out of a finished round.
RoundStarts == state \in {"MENU", "GAME_OVER"} /\ state' = "PLAYING"

\* C18: the high score is a non-negative integer that no step lowers, and
\* the score is 0 when a round starts.
C18_HighScoreMonotone ==
    /\ [](high_score \in Nat /\ (~tick.ran => score = 0))
    /\ [][/\ high_score' >= high_score
          /\ RoundStarts => score' = 0]_vars

\* C18 without the sign: no step lowers the high score, and the score is 0
\* when a round starts.
C18_HighScoreNeverDecreases ==
    /\ [](~tick.ran => score = 0)
    /\ [][/\ high_score' >= high_score
          /\ RoundStarts => score' = 0]_vars

\* C18, the stored negative number: a round in play under a negative high
\* score.
C18_NegativeWitness ==
    /\ state = "PLAYING" /\ tick.ran /\ high_score < 0

\* C18 witness: a later round in play, below the high score an earlier round
\* of this run set.
C18_Witness ==
    /\ state = "PLAYING" /\ tick.ran
    /\ high_score > MaxStoredHighScore /\ score < high_score

\* The step is the restart of a finished round.
Restarts == state = "GAME_OVER" /\ state' = "PLAYING"

\* C19: a restart in GameOver leads to Playing with the snake in the initial
\* centred layout heading right, score 0, the win reason, the pause and the
\* accumulated tick time cleared, food on a cell the reset body does not
\* occupy, and the high score kept.
C19_RestartResets ==
    [][Restarts =>
         /\ C10_Layout'
         /\ score' = 0
         /\ ~victory'
         /\ ~paused'
         /\ move_progress' = 0
         /\ tick' = NoTick
         /\ food' \in Interior \ Cells(body')
         /\ high_score' = high_score
         /\ pc' \in {"events", "input"}]_vars

\* C19 witness: the terminal edition, which has no menu, at the start of a
\* round with a high score that an earlier round of this run set.
C19_Witness ==
    /\ edition = "term" /\ state = "PLAYING" /\ pc = "input" /\ ~tick.ran
    /\ high_score > MaxStoredHighScore /\ score = 0

\* The state of the round controller; Exit once the main loop is left.
CtrlState ==
    IF pc = "exit" THEN "Exit"
    ELSE IF state = "MENU" THEN "Menu"
    ELSE IF state = "GAME_OVER" THEN "GameOver"
    ELSE IF state = "PAUSED" \/ paused THEN "Paused"
    ELSE "Playing"

\* The transitions of the state diagram.
DiagramTransitions ==
    {<<"Menu", "Playing">>, <<"Playing", "Paused">>, <<"Paused", "Playing">>,
     <<"Playing", "GameOver">>, <<"GameOver", "Playing">>,
     <<"GameOver", "Menu">>, <<"GameOver", "Exit">>}

\* The transitions the escape key and quitting add.
EscapeAndQuitTransitions ==
    {<<"Playing", "Menu">>, <<"Paused", "Menu">>,
     <<"Menu", "Exit">>, <<"Playing", "Exit">>, <<"Paused", "Exit">>}

\* C20 as claimed: the controller makes only the transitions of the state
\* diagram, and GameOver is entered only by a tick.
C20_OnlyDiagramTransitions ==
    [][CtrlState' # CtrlState =>
         /\ <<CtrlState, CtrlState'>> \in DiagramTransitions
         /\ CtrlState' = "GameOver" => IsTick]_vars

\* C20 amended: the controller makes only the transitions of the state
\* diagram, those of the escape key (Playing or Paused to Menu) and the exit
\* from any state on quitting; GameOver is entered only from Playing, by a
\* tick.
C20_DiagramEscapeAndQuit ==
    [][CtrlState' # CtrlState =>
         /\ <<CtrlState, CtrlState'>> \in
               DiagramTransitions \cup EscapeAndQuitTransitions
         /\ CtrlState' = "GameOver" => (CtrlState = "Playing" /\ IsTick)]_vars

\* C20 witness: the main loop left from a round in play, after a tick.
C20_Witness ==
    /\ pc = "exit" /\ state \in {"PLAYING", "PAUSED"} /\ tick.ran
    /\ Len(body) >= 2

\* C20, the escape key: a round in play whose next key may be escape.
C20_EscapeWitness ==
    /\ edition = "gui" /\ state \in {"PLAYING", "PAUSED"} /\ pc = "events"
    /\ tick.ran /\ ENABLED GuiKeyEvent("ESCAPE")

\* The text holds no number: it has no digit, or a character that is
\* neither a digit, a sign nor white space.
NonNumeric(t) ==
    \/ \A i \in 1..Len(t) : t[i] \notin DigitChars
    \/ \E i \in 1..Len(t) : t[i] \notin DigitChars \cup Whitespace \cup {"+", "-"}

\* C21: loading after a save of a non-negative n that wrote the file yields
\* n; loading a missing or unreadable file, or one of non-numeric content,
\* yields 0; a save that fails changes nothing in memory and the program
\* goes on.
C21_SaveLoadRoundTrip ==
    [][/\ (pc = "saved" /\ pc' = "loaded") => high_score' = high_score
       /\ (pc # "loaded" /\ pc' = "loaded"
             /\ (file.kind # "text" \/ NonNumeric(file.text))) => high_score' = 0
       /\ (pc = "save" /\ pc' = "save_failed") =>
             UNCHANGED <<high_score, score, body, direction, pending, food,
                         state, paused, victory, running>>]_vars

\* C21 witness: a two-digit high score was saved and loaded again (the file
\* holds its "1", which no file found at start-up does).
C21_Witness ==
    /\ pc = "loaded" /\ high_score >= 10 /\ score = high_score
    /\ file = Written(high_score) /\ file.text[1] = "1"

\* C21, the unusable file: a file of non-numeric text was loaded as 0.
C21_GarbageWitness ==
    /\ pc = "loaded" /\ high_score = 0 /\ score > 0
    /\ file.kind = "text" /\ Len(file.text) = 3 /\ NonNumeric(file.text)

\* C21, the failed save: write_text raised and left the file empty.
C21_FailedSaveWitness ==
    /\ pc = "save_failed" /\ file = TextFile(<<>>) /\ high_score > 0

\* The step handles a direction key.
QueueStep ==
    \E key \in DirectionKeys : GuiKeyEvent(key) \/ _handle_input(key)

\* The step builds the snake anew: a round starts or the menu is entered.
ResetStep == RoundStarts \/ state' = "MENU"

\* C22: a tick commits the queued direction once, before the next head is
\* computed, and moves with it; a direction key leaves the queued direction
\* as it was or sets it to the key's; within a round no other step changes
\* direction or pending direction.  So a tick moves in the last direction
\* queued and not rejected, or in the previous direction without one.
C22_CommitOncePerTick ==
    [][/\ IsTick =>
             /\ direction' = Queued
             /\ tick'.dir = Queued
             /\ tick'.next_head = Add(body[1], Queued)
             /\ edition = "gui" => pending' = pending
       /\ \A key \in DirectionKeys :
             (GuiKeyEvent(key) \/ _handle_input(key)) =>
                /\ Queued' \in {Queued, KeyVector(key)}
                /\ edition = "gui" => direction' = direction
       /\ ~(IsTick \/ QueueStep \/ ResetStep) =>
             UNCHANGED <<direction, pending>>]_vars

\* C22 witness: in the GUI edition a tick committed a queued turn and the
\* snake of two or more segments moved with it.
C22_Witness ==
    /\ edition = "gui" /\ tick.ran /\ ~tick.wall /\ ~tick.self
    /\ tick.dir \in {UP, DOWN} /\ direction = tick.dir /\ pending = direction
    /\ Len(body) >= 2 /\ body[1] = Add(body[2], tick.dir)

\* A cell, or no cell, moved by k in both coordinates: k = 1 takes a GUI
\* position to the terminal position inside the border, k = -1 back.
ShiftCell(c, k) == IF c = None THEN None ELSE <<c[1] + k, c[2] + k>>

ShiftBody(b, k) == [i \in 1..Len(b) |-> ShiftCell(b[i], k)]

\* What the collision logic of _advance_snake makes of body b, direction d
\* and food f.
GuiTickOutcome(b, d, f) ==
    LET nh == Add(b[1], d)
        wall == ~_within_bounds(nh)
        self == ~wall /\ nh \in Cells(GuiBodyToCheck(b))
        grow == f # None /\ nh = f
    IN  [wall |-> wall, self |-> self,
         body |-> IF wall \/ self THEN b ELSE Move(b, d, grow)]

\* What the collision logic of _update makes of body b, direction d and
\* food f.
TermTickOutcome(b, d, f) ==
    LET nh == Add(b[1], d)
        wall == _hit_wall(nh[1], nh[2])
        grow == f # None /\ nh = f
        self == ~wall /\ nh \in Cells(TermBodyToCheck(b, grow))
    IN  [wall |-> wall, self |-> self,
         body |-> IF wall \/ self THEN b ELSE Move(b, d, grow)]

\* The outcome of the tick the step takes, moved by k.
StepOutcome(k) ==
    [wall |-> tick'.wall, self |-> tick'.self, body |-> ShiftBody(body', k)]

\* C23: on every tick of either edition the collision logic of the other
\* edition, applied to the corresponding state (same direction and food,
\* positions shifted by the border), gives the same outcome among no hit,
\* wall hit and self hit and the same body, and can place the food on the
\* same cell.
C23_EditionsAgreeOnTicks ==
    [][IsTick =>
         IF edition = "gui"
         THEN /\ TermTickOutcome(ShiftBody(body, 1), TickDir, ShiftCell(food, 1))
                   = StepOutcome(1)
              /\ tick'.grow =>
                    ShiftCell(food', 1) \in _place_food(ShiftBody(body', 1))
         ELSE /\ GuiTickOutcome(ShiftBody(body, -1), TickDir, ShiftCell(food, -1))
                   = StepOutcome(-1)
              /\ tick'.grow =>
                    ShiftCell(food', -1) \in _spawn_food(ShiftBody(body', -1))]_vars

\* C23 witness: the terminal edition ate with three or more segments, the
\* case in which its check keeps the tail and the GUI's drops it.
C23_Witness ==
    /\ edition = "term" /\ tick.ran /\ tick.grow /\ ~tick.self
    /\ Len(body) >= 4 /\ body[1] = tick.next_head /\ state = "PLAYING"

\* C23, the vacated tail: the GUI edition moved its head onto the cell its
\* tail left on the same tick.
C23_TailWitness ==
    /\ edition = "gui" /\ tick.ran /\ ~tick.grow /\ ~tick.self /\ ~tick.wall
    /\ Len(body) >= 4 /\ Len(previous_body) = Len(body)
    /\ body[1] = previous_body[Len(previous_body)]

\* C23 for the requests, not the collisions: a key handled by the terminal
\* edition queues what the GUI edition would queue in the corresponding
\* state (committed direction that of the last tick, same queued direction).
C23_EditionsAgreeOnKeys ==
    [][\A key \in DirectionKeys :
         _handle_input(key) =>
            direction' = QueueDirection(Committed, Queued, KeyVector(key))]_vars

\* A tick can start in this state: the round is in play and not paused.
TickCanStart ==
    /\ state = "PLAYING" /\ pc \in {"events", "update", "input"}
    /\ edition = "term" => ~paused

\* C24: in every state food, when present, is an interior cell that no body
\* segment occupies, food is absent only when the body fills the board, and
\* food is present wherever a tick can start.
C24_FoodOffBody ==
    /\ food # None => (food \in Interior /\ food \notin Cells(body))
    /\ food = None => Full
    /\ TickCanStart => food # None

\* C24 witness: a round in play after a tick with one free cell left, which
\* holds the food.
C24_Witness ==
    /\ state = "PLAYING" /\ tick.ran /\ food # None
    /\ Len(body) = (board.width * board.height) - 1

\* C24, the absent food: the body fills the board and no food is placed.
C24_NoFoodWitness == food = None /\ Full /\ tick.ran /\ tick.grow

\* C25: in every state the body is as long as the initial length plus the
\* score; within a round the body never shrinks and grows only on a step
\* that adds as much to the score.
C25_LengthIsInitialPlusScore ==
    /\ [](Len(body) = board.length + score)
    /\ [][~ResetStep =>
            /\ Len(body') >= Len(body)
            /\ Len(body') - Len(body) = score' - score]_vars

\* C25 witness: a snake that has eaten twice or more and then moved on
\* without eating.
C25_Witness ==
    /\ tick.ran /\ ~tick.grow /\ ~tick.wall /\ ~tick.self
    /\ score >= 2 /\ Len(body) = board.length + score

\* Orthogonally adjacent cells: Manhattan distance 1.
Adjacent(c, d) ==
    \/ c[1] = d[1] /\ (c[2] = d[2] + 1 \/ d[2] = c[2] + 1)
    \/ c[2] = d[2] /\ (c[1] = d[1] + 1 \/ d[1] = c[1] + 1)

\* C26: in every state each two consecutive body segments are orthogonally
\* adjacent.
C26_BodyConnected ==
    \A i \in 1..(Len(body) - 1) : Adjacent(body[i], body[i + 1])

\* C26 witness: a body of four or more segments with a bend, after a tick.
C26_Witness ==
    /\ tick.ran /\ Len(body) >= 4
    /\ \E i \in 1..(Len(body) - 1) : body[i][1] # body[i + 1][1]
    /\ \E j \in 1..(Len(body) - 1) : body[j][2] # body[j + 1][2]

\* C27: in the GUI edition previous_body is as long as the body and each of
\* its cells is the cell of the body segment of the same index or
\* orthogonally adjacent to it, after reset and after every tick.
C27_PreviousBodyAligned ==
    edition = "gui" =>
       /\ Len(previous_body) = Len(body)
       /\ \A i \in 1..Len(body) :
             previous_body[i] = body[i] \/ Adjacent(previous_body[i], body[i])

\* C27 witness: a growing tick of a snake of three or more segments: the new
\* last segment starts from the old tail, where it stays.
C27_Witness ==
    /\ edition = "gui" /\ tick.ran /\ tick.grow /\ Len(body) >= 4
    /\ body[1] = tick.next_head /\ previous_body[1] # body[1]
    /\ previous_body[Len(body)] = body[Len(body)]
    /\ previous_body[Len(body) - 1] = body[Len(body)]

====
